---- MODULE Spec2Model ----
(***************************************************************************)
(* Scheduling and state engine of the task board (src/parse_tasks.py):     *)
(*   - the Kanban board of one owner over the shared task map and the CSV  *)
(*     store (status transitions, reassignment, store polling);            *)
(*   - topological_sort, one loop iteration per step;                      *)
(*   - allocate_schedule, one loop iteration per step.                     *)
(* Each part has its own specification; the variables of the other parts   *)
(* stay parked at their idle value.                                        *)
(***************************************************************************)
EXTENDS Integers, Sequences, FiniteSets, TLC

\* ------------------------------------------------------------------ bounds
\* accepted board operations (each one saves the store once)
MaxOps == 3
\* the wall clock takes the values 0, 20, ..., 20 * MaxClock seconds
MaxClock == 1
\* comment prompts answered with a text (the others are skipped)
MaxTyped == 1

\* DependsOn entries of one task, and of all tasks, given to topological_sort
MaxDeps == 2
MaxEdges == 3

\* tasks given to allocate_schedule
MaxAllocTasks == 3

\* calls of update_task_status and reassignments made on one task dict
MaxCalls == 3

\* tasks of the map handed to calc_progress_all
MaxProgTasks == 8

\* --------------------------------------------------------------- universe
TaskOrder == <<"T1", "T2">>
TaskIDs == {TaskOrder[i] : i \in 1..Len(TaskOrder)}
Owners == {"Alice", "Bob"}
\* the user selected at start-up
BoardOwner == "Alice"
Comments == {<<>>, <<"note">>}
Times == {20 * k : k \in 0..MaxClock}

\* the task map given to topological_sort, in insertion order
TopoOrder == <<"A", "B", "C">>
TopoIDs == {TopoOrder[i] : i \in 1..Len(TopoOrder)}
MissingID == "X"
Priorities == {"High", "Medium", "Low", "Urgent"}

\* EstimatedHours given to allocate_schedule, in minutes: 0.5 h, 1 h, 2.5 h, 8 h
EstimatedChoices == {30, 60, 150, 480}
\* the instant of the call: 08:00, 10:30, 18:00
AllocNows == {480, 630, 1080}

\* Python None / pandas NaN; a present value v of a nullable field is <<v>>
\* clock readings of the calls on one task dict; the clock may be set back
RecTimes == {0, 20, 50}
\* a status that is none of the five
InvalidStatus == "Archived"

None == <<>>

KANBAN_STATUSES == <<"Pending", "In Progress", "Paused", "Completed", "Canceled">>

StatusSet == {KANBAN_STATUSES[i] : i \in 1..Len(KANBAN_STATUSES)}

VARIABLES
  owner,           \* the user of this board (show_kanban_ui's owner)
  owners,          \* owners found in the store at start-up
  tasks_all,       \* the shared in-memory task map
  csv,             \* rows of the CSV store
  csv_mtime,       \* modification token of the CSV file
  last_csv_mtime,  \* token recorded by the last reload of poll_csv
  now,             \* wall clock, seconds
  pc,              \* "init", "idle", "prompt_comment", "reassign_dialog"
  cur,             \* the handler suspended in a modal dialog
  last             \* the last board request and its outcome

VARIABLES
  tp_pc,           \* "off", "start", "loop", "returned", "dangling", "cycle"
  tp_tasks,        \* the task map: DependsOn and Priority of every task
  graph,           \* dependency -> its dependents
  in_degree,
  queue,           \* the ready frontier
  ordered_ids,
  tp_err           \* what the raised error names

topoVars == <<tp_pc, tp_tasks, graph, in_degree, queue, ordered_ids, tp_err>>

VARIABLES
  al_pc,           \* "off", "loop", "done"
  al_now,          \* datetime.now() of the call
  task_list,       \* the tasks, in the order given
  al_i,            \* the task the for loop is at
  hours_remaining,
  current_time,    \* the cursor
  task_start,
  al_span          \* the span the last pass through the else branch consumed

allocVars == <<al_pc, al_now, task_list, al_i, hours_remaining, current_time, task_start, al_span>>

boardVars == <<owner, owners, tasks_all, csv, csv_mtime, last_csv_mtime, now, pc, cur, last>>

VARIABLES
  rec_pc,          \* "off", "ready"
  rec_task,        \* the task dict handed to update_task_status
  rec_now,         \* datetime.now()
  rec_calls,       \* calls made so far
  rec_last         \* the last call: what was asked, the dict before it

recVars == <<rec_pc, rec_task, rec_now, rec_calls, rec_last>>

VARIABLES
  pg_pc,           \* "off", "ready", "returned"
  pg_tasks,        \* the task map handed to calc_progress_all, in dict order
  pg_project,      \* the project argument, None when not given
  pg_milestone,    \* the milestone argument, None when not given
  pg_result        \* what the call returned

progVars == <<pg_pc, pg_tasks, pg_project, pg_milestone, pg_result>>

VARIABLES
  peer_last        \* the last transition the board of another user saved

peerVars == <<peer_last>>

vars == <<boardVars, topoVars, allocVars, recVars, progVars, peerVars>>

\* ------------------------------------------------------------ persistence

\* "|".join(ids): the IDs separated by "|" tokens
RECURSIVE JoinPipe(_)
JoinPipe(ids) ==
  IF Len(ids) = 0 THEN <<>>
  ELSE IF Len(ids) = 1 THEN <<ids[1]>>
  ELSE <<ids[1], "|">> \o JoinPipe(Tail(ids))

\* s.split("|") on a string of tokens
RECURSIVE SplitPipe(_)
SplitPipe(s) ==
  IF Len(s) = 0 THEN <<>>
  ELSE IF Len(s) = 1 THEN <<s[1]>>
  ELSE IF s[2] = "|" THEN <<s[1]>> \o SplitPipe(Tail(Tail(s)))
  ELSE <<s[1]>>

\* one row of tasks_to_dataframe
tasks_to_dataframe(t) ==
  [ TaskID |-> t.TaskID,
    DependsOn |-> IF t.DependsOn # <<>> THEN JoinPipe(t.DependsOn) ELSE <<>>,
    Owner |-> t.Owner,
    Status |-> <<t.Status>>,
    ActualHours |-> <<t.ActualHours>>,
    LastComment |-> t.LastComment,
    CommentLog |-> t.CommentLog,
    LastUpdated |-> t.LastUpdated,
    ActualSeconds |-> <<t.ActualSeconds>>,
    InProgressStart |-> t.InProgressStart ]

save_all_tasks_to_csv(all) == [tid \in DOMAIN all |-> tasks_to_dataframe(all[tid])]

\* one task of load_all_tasks
load_task(row) ==
  [ TaskID |-> row.TaskID,
    DependsOn |-> IF row.DependsOn # <<>> THEN SplitPipe(row.DependsOn) ELSE <<>>,
    Owner |-> row.Owner,
    Status |-> IF row.Status # None THEN row.Status[1] ELSE "Pending",
    ActualHours |-> IF row.ActualHours # None THEN row.ActualHours[1] ELSE 0,
    LastComment |-> row.LastComment,
    CommentLog |-> row.CommentLog,
    LastUpdated |-> row.LastUpdated,
    ActualSeconds |-> IF row.ActualSeconds # None THEN row.ActualSeconds[1] ELSE 0,
    InProgressStart |-> row.InProgressStart ]

load_all_tasks(rows) == [tid \in DOMAIN rows |-> load_task(rows[tid])]

\* ---------------------------------------------------------- blocked logic

\* get_block_reason reporting the missing dependencies only
get_block_reason_missing_only(dep_id, all) ==
  IF dep_id \notin DOMAIN all THEN <<[text |-> "Depends on missing task", dep |-> dep_id, owner |-> ""]>>
  ELSE <<>>

\* get_block_reason taking a Canceled dependency for a finished one
get_block_reason_canceled_done(dep_id, all) ==
  IF dep_id \notin DOMAIN all THEN <<[text |-> "Depends on missing task", dep |-> dep_id, owner |-> ""]>>
  ELSE IF all[dep_id].Status \notin {"Completed", "Canceled"}
       THEN <<[text |-> "Waiting on", dep |-> dep_id, owner |-> all[dep_id].Owner]>>
       ELSE <<>>

\* one dependency: the reason it blocks, if it does
get_block_reason(dep_id, all) ==
  IF dep_id \notin DOMAIN all THEN <<[text |-> "Depends on missing task", dep |-> dep_id, owner |-> ""]>>
  ELSE IF all[dep_id].Status # "Completed"
       THEN <<[text |-> "Waiting on", dep |-> dep_id, owner |-> all[dep_id].Owner]>>
       ELSE <<>>

RECURSIVE block_reasons_of(_, _)
block_reasons_of(deps, all) ==
  IF deps = <<>> THEN <<>>
  ELSE get_block_reason(Head(deps), all) \o block_reasons_of(Tail(deps), all)

\* get_block_reasons giving up after the first reason
get_block_reasons_first(task, all) ==
  LET reasons == block_reasons_of(task.DependsOn, all)
  IN IF reasons = <<>> THEN <<>> ELSE <<Head(reasons)>>

get_block_reasons(task, all) == block_reasons_of(task.DependsOn, all)

\* is_blocked finding no task blocked
is_blocked_never(task, all) == FALSE

\* is_blocked taking a Canceled dependency for one that is out of the way
is_blocked_open_only(task, all) ==
  \E k \in 1..Len(task.DependsOn) :
    \/ task.DependsOn[k] \notin DOMAIN all
    \/ all[task.DependsOn[k]].Status \in {"Pending", "In Progress", "Paused"}

is_blocked(task, all) == Len(get_block_reasons(task, all)) > 0

\* ------------------------------------------------ status, comments, timing

isoformat(t) == <<t>>

parse_iso(ts) == IF ts # None THEN ts ELSE None

\* the elapsed time without the floor at zero
Max0_keep_sign(x) == x

\* max(0, int(elapsed))
Max0(x) == IF x > 0 THEN x ELSE 0

\* round(seconds / 3600.0, 2), in hundredths of an hour
round_hours(seconds) ==
  LET q == seconds \div 36
      r == seconds % 36
  IN IF 2 * r > 36 THEN q + 1
     ELSE IF 2 * r < 36 THEN q
     ELSE IF q % 2 = 0 THEN q ELSE q + 1

append_comment_log(task, action_label, comment, t_now) ==
  LET ts == isoformat(t_now)
      entry == [ts |-> ts, label |-> action_label,
                comment |-> IF comment # None THEN comment[1] ELSE ""]
  IN [task EXCEPT !.CommentLog = Append(@, entry),
                  !.LastComment = comment,
                  !.LastUpdated = ts]

\* leave_in_progress without the reset of InProgressStart
leave_in_progress_keep_start(task, t_now) ==
  LET in_start == parse_iso(task.InProgressStart)
      secs == IF in_start # None
              THEN task.ActualSeconds + Max0(t_now - in_start[1])
              ELSE task.ActualSeconds
  IN [task EXCEPT !.ActualSeconds = secs,
                  !.ActualHours = round_hours(secs)]

\* update_task_status: the branch that leaves In Progress
leave_in_progress(task, t_now) ==
  LET in_start == parse_iso(task.InProgressStart)
      secs == IF in_start # None
              THEN task.ActualSeconds + Max0(t_now - in_start[1])
              ELSE task.ActualSeconds
  IN [task EXCEPT !.ActualSeconds = secs,
                  !.InProgressStart = None,
                  !.ActualHours = round_hours(secs)]

\* enter_in_progress starting the count of the task anew
enter_in_progress_reset(task, t_now) ==
  [task EXCEPT !.InProgressStart = isoformat(t_now), !.ActualSeconds = 0,
               !.ActualHours = 0]

\* update_task_status: the branch that enters In Progress
enter_in_progress(task, t_now) ==
  IF task.InProgressStart = None
  THEN [task EXCEPT !.InProgressStart = isoformat(t_now)]
  ELSE task

\* update_task_status up to the validity check: the timing fields
update_timing(task, status, t_now) ==
  LET prev_status == task.Status
      t1 == IF prev_status = "In Progress" /\ status # "In Progress"
            THEN leave_in_progress(task, t_now) ELSE task
  IN IF status = "In Progress" /\ prev_status # "In Progress"
     THEN enter_in_progress(t1, t_now) ELSE t1

\* update_task_status for a valid status, up to the comment prompt
update_task_status(task, status, t_now) ==
  [update_timing(task, status, t_now) EXCEPT !.Status = status]

\* ------------------------------------------------------------ board helpers

RECURSIVE first_in_order(_, _)
first_in_order(S, i) ==
  IF i > Len(TaskOrder) THEN None
  ELSE IF TaskOrder[i] \in S THEN <<TaskOrder[i]>>
  ELSE first_in_order(S, i + 1)

\* the first In Progress task of this board's owner, in task-map order
get_first_in_progress ==
  first_in_order({tid \in DOMAIN tasks_all :
                    tasks_all[tid].Owner = owner /\ tasks_all[tid].Status = "In Progress"}, 1)

\* enforce_single_in_progress letting every start through
enforce_single_in_progress_off(tid) == TRUE

enforce_single_in_progress(tid) ==
  LET ip == get_first_in_progress
  IN ~(ip # None /\ tasks_all[ip[1]] # tasks_all[tid])

\* ensure_owner letting every user through
ensure_owner_any(t) == TRUE

ensure_owner(t) == t.Owner = owner

\* the drop table with Pending -> Completed added
allowed_pending_completes ==
  [ s \in StatusSet |->
      CASE s = "Pending" -> {"In Progress", "Canceled", "Completed"}
        [] s = "Paused" -> {"In Progress", "Canceled"}
        [] s = "In Progress" -> {"Paused", "Completed", "Canceled"}
        [] s = "Completed" -> {}
        [] s = "Canceled" -> {} ]

\* the drop table with Pending -> Canceled left out
allowed_no_cancel_pending ==
  [ s \in StatusSet |->
      CASE s = "Pending" -> {"In Progress"}
        [] s = "Paused" -> {"In Progress", "Canceled"}
        [] s = "In Progress" -> {"Paused", "Completed", "Canceled"}
        [] s = "Completed" -> {}
        [] s = "Canceled" -> {} ]

\* the drop table with Canceled -> Pending added
allowed_canceled_reopens ==
  [ s \in StatusSet |->
      CASE s = "Pending" -> {"In Progress", "Canceled"}
        [] s = "Paused" -> {"In Progress", "Canceled"}
        [] s = "In Progress" -> {"Paused", "Completed", "Canceled"}
        [] s = "Completed" -> {}
        [] s = "Canceled" -> {"Pending"} ]

\* the table of on_drop
allowed ==
  [ s \in StatusSet |->
      CASE s = "Pending" -> {"In Progress", "Canceled"}
        [] s = "Paused" -> {"In Progress", "Canceled"}
        [] s = "In Progress" -> {"Paused", "Completed", "Canceled"}
        [] s = "Completed" -> {}
        [] s = "Canceled" -> {} ]

\* tasks that pass is_task_visible for some setting of the view filters
OwnTasks == {tid \in DOMAIN tasks_all : tasks_all[tid].Owner = owner}

\* vis: the tasks shown (own tasks passing the filters); sel: the selected label
current_selection_from_any_list(vis, sel) ==
  LET ip == get_first_in_progress
  IN IF ip # None /\ ip[1] \in vis THEN ip ELSE sel

\* what the buttons can act on, over all filter settings and selections
Selections ==
  {current_selection_from_any_list(vis, sel) :
     <<vis, sel>> \in {vs \in (SUBSET OwnTasks) \X ({None} \cup {<<t>> : t \in OwnTasks}) :
                        vs[2] = None \/ vs[2][1] \in vs[1]}}

NoCur == [tid |-> "", label |-> <<>>, detached |-> FALSE, choices |-> {}]

NoRequest == [tid |-> "", to |-> "", res |-> "none"]

Request(tid, to, res) == [tid |-> tid, to |-> to, res |-> res]

\* a handler that returns without touching the task map or the store
Refuse(tid, to, res) ==
  /\ last' = Request(tid, to, res)
  /\ UNCHANGED <<owner, owners, tasks_all, csv, csv_mtime, last_csv_mtime, now, pc, cur>>

move_task_to_status(tid, new_status, action_label) ==
  LET t == tasks_all[tid]
  IN IF ~ensure_owner(t) THEN Refuse(tid, new_status, "Not Allowed")
     ELSE IF new_status = "In Progress" /\ is_blocked(t, tasks_all)
          THEN Refuse(tid, new_status, "Blocked")
     ELSE IF new_status = "In Progress" /\ ~enforce_single_in_progress(tid)
          THEN Refuse(tid, new_status, "In Progress")
     ELSE /\ csv_mtime < MaxOps
          /\ tasks_all' = [tasks_all EXCEPT ![tid] = update_task_status(t, new_status, now)]
          /\ cur' = [tid |-> tid, label |-> action_label, detached |-> FALSE, choices |-> {}]
          /\ pc' = "prompt_comment"
          /\ last' = Request(tid, new_status, "prompt")
          /\ UNCHANGED <<owner, owners, csv, csv_mtime, last_csv_mtime, now>>

\* ------------------------------------------------------------ board actions

\* a label is dragged (on_start_drag) and released over a column.  The lists
\* show the owner's tasks; drag_data keeps the ID that was pressed, and the
\* task is looked up again at the release, when it may be another owner's
\* (a board of another user can have taken it over in between).
on_drop(tid, target_status) ==
  /\ pc = "idle"
  /\ tid \in DOMAIN tasks_all
  /\ LET source_status == tasks_all[tid].Status
     IN IF target_status = source_status
        THEN UNCHANGED boardVars
        ELSE IF target_status \notin allowed[tasks_all[tid].Status]
             THEN Refuse(tid, target_status, "Move not allowed")
             ELSE move_task_to_status(tid, target_status, <<"Move ->", target_status>>)
  /\ UNCHANGED <<topoVars, allocVars, recVars, progVars, peerVars>>

\* the buttons act on t, what current_selection_from_any_list returns
do_pause(t) ==
  /\ pc = "idle"
  /\ t # None
  /\ IF tasks_all[t[1]].Status # "In Progress"
     THEN Refuse(t[1], "Paused", "Pause")
     ELSE move_task_to_status(t[1], "Paused", <<"Pause">>)
  /\ UNCHANGED <<topoVars, allocVars, recVars, progVars, peerVars>>

do_complete(t) ==
  /\ pc = "idle"
  /\ t # None
  /\ IF tasks_all[t[1]].Status # "In Progress"
     THEN Refuse(t[1], "Completed", "Complete")
     ELSE move_task_to_status(t[1], "Completed", <<"Complete">>)
  /\ UNCHANGED <<topoVars, allocVars, recVars, progVars, peerVars>>

do_cancel(t) ==
  /\ pc = "idle"
  /\ t # None
  /\ IF tasks_all[t[1]].Status \notin {"Pending", "In Progress", "Paused"}
     THEN Refuse(t[1], "Canceled", "Cancel")
     ELSE move_task_to_status(t[1], "Canceled", <<"Cancel">>)
  /\ UNCHANGED <<topoVars, allocVars, recVars, progVars, peerVars>>

\* do_reassign up to the owner dialog
do_reassign(t) ==
  /\ pc = "idle"
  /\ csv_mtime < MaxOps
  /\ t # None
  /\ pc' = "reassign_dialog"
  /\ cur' = [tid |-> t[1], label |-> <<>>, detached |-> FALSE,
             choices |-> {o \in owners : o # tasks_all[t[1]].Owner}]
  /\ last' = Request(t[1], "", "dialog")
  /\ UNCHANGED <<owner, owners, tasks_all, csv, csv_mtime, last_csv_mtime, now>>
  /\ UNCHANGED <<topoVars, allocVars, recVars, progVars, peerVars>>

\* ok() of the owner dialog up to the comment prompt
reassign_ok(new_owner) ==
  /\ pc = "reassign_dialog"
  /\ new_owner \in cur.choices
  /\ tasks_all' = IF cur.detached THEN tasks_all
                  ELSE [tasks_all EXCEPT ![cur.tid].Owner = new_owner]
  /\ pc' = "prompt_comment"
  /\ cur' = [cur EXCEPT !.label = <<"Reassign to", new_owner>>]
  /\ last' = [last EXCEPT !.to = new_owner, !.res = "prompt"]
  /\ UNCHANGED <<owner, owners, csv, csv_mtime, last_csv_mtime, now>>
  /\ UNCHANGED <<topoVars, allocVars, recVars, progVars, peerVars>>

\* the owner dialog is closed, or OK is pressed with no owner to choose
reassign_dismiss ==
  /\ pc = "reassign_dialog"
  /\ pc' = "idle"
  /\ cur' = NoCur
  /\ last' = [last EXCEPT !.res = "dismissed"]
  /\ UNCHANGED <<owner, owners, tasks_all, csv, csv_mtime, last_csv_mtime, now>>
  /\ UNCHANGED <<topoVars, allocVars, recVars, progVars, peerVars>>

\* prompts answered with a text so far, as far as the task map records them
RECURSIVE TypedIn(_)
TypedIn(log) ==
  IF log = <<>> THEN 0
  ELSE (IF Head(log).comment # "" THEN 1 ELSE 0) + TypedIn(Tail(log))

RECURSIVE TypedSum(_, _)
TypedSum(all, i) ==
  IF i > Len(TaskOrder) THEN 0
  ELSE TypedIn(all[TaskOrder[i]].CommentLog) + TypedSum(all, i + 1)

\* prompt_comment saving the row of the held task only
prompt_comment_own_row(comment) ==
  /\ pc = "prompt_comment"
  /\ comment # None => TypedSum(tasks_all, 1) < MaxTyped
  /\ LET new_all == IF cur.detached THEN tasks_all
                    ELSE [tasks_all EXCEPT
                            ![cur.tid] = append_comment_log(@, cur.label, comment, now)]
     IN /\ tasks_all' = new_all
        /\ csv' = [csv EXCEPT ![cur.tid] = tasks_to_dataframe(new_all[cur.tid])]
  /\ csv_mtime' = csv_mtime + 1
  /\ pc' = "idle"
  /\ cur' = NoCur
  /\ last' = [last EXCEPT !.res = "ok"]
  /\ UNCHANGED <<owner, owners, last_csv_mtime, now>>
  /\ UNCHANGED <<topoVars, allocVars, recVars, progVars, peerVars>>

\* the comment prompt returns: log entry on the held task, save, refresh
prompt_comment(comment) ==
  /\ pc = "prompt_comment"
  /\ comment # None => TypedSum(tasks_all, 1) < MaxTyped
  /\ LET new_all == IF cur.detached THEN tasks_all
                    ELSE [tasks_all EXCEPT
                            ![cur.tid] = append_comment_log(@, cur.label, comment, now)]
     IN /\ tasks_all' = new_all
        /\ csv' = save_all_tasks_to_csv(new_all)
  /\ csv_mtime' = csv_mtime + 1
  /\ pc' = "idle"
  /\ cur' = NoCur
  /\ last' = [last EXCEPT !.res = "ok"]
  /\ UNCHANGED <<owner, owners, last_csv_mtime, now>>
  /\ UNCHANGED <<topoVars, allocVars, recVars, progVars, peerVars>>

\* poll_csv reloading whatever the token is
poll_csv_always ==
  /\ tasks_all' = load_all_tasks(csv)
  /\ last_csv_mtime' = <<csv_mtime>>
  /\ cur' = IF pc \in {"prompt_comment", "reassign_dialog"}
            THEN [cur EXCEPT !.detached = TRUE] ELSE cur
  /\ pc' = IF pc = "init" THEN "idle" ELSE pc
  /\ UNCHANGED <<owner, owners, csv, csv_mtime, now, last>>
  /\ UNCHANGED <<topoVars, allocVars, recVars, progVars, peerVars>>

\* the 3-second timer: runs in the main loop and inside the modal dialogs
poll_csv ==
  /\ IF last_csv_mtime = None \/ csv_mtime > last_csv_mtime[1]
     THEN /\ tasks_all' = load_all_tasks(csv)
          /\ last_csv_mtime' = <<csv_mtime>>
          /\ cur' = IF pc \in {"prompt_comment", "reassign_dialog"}
                    THEN [cur EXCEPT !.detached = TRUE] ELSE cur
     ELSE UNCHANGED <<tasks_all, last_csv_mtime, cur>>
  /\ pc' = IF pc = "init" THEN "idle" ELSE pc
  /\ UNCHANGED <<owner, owners, csv, csv_mtime, now, last>>
  /\ UNCHANGED <<topoVars, allocVars, recVars, progVars, peerVars>>

\* the wall clock advances
Tick ==
  /\ pc # "init"
  /\ now + 20 \in Times
  /\ now' = now + 20
  /\ UNCHANGED <<owner, owners, tasks_all, csv, csv_mtime, last_csv_mtime, pc, cur, last>>
  /\ UNCHANGED <<topoVars, allocVars, recVars, progVars, peerVars>>

\* ======================================================== topological_sort

PRIORITY_ORDER == [High |-> 1, Medium |-> 2, Low |-> 3]

\* the rank with an unknown priority put before the known ones
PriorityRank_unknown_first(p) == IF p \in DOMAIN PRIORITY_ORDER THEN PRIORITY_ORDER[p] ELSE 0

\* PRIORITY_ORDER.get(priority, 99)
PriorityRank(p) == IF p \in DOMAIN PRIORITY_ORDER THEN PRIORITY_ORDER[p] ELSE 99

\* the (task, dependency) pairs in the order the first loop visits them
RECURSIVE EdgeList(_, _)
EdgeList(tasks, i) ==
  IF i > Len(TopoOrder) THEN <<>>
  ELSE LET tid == TopoOrder[i]
           deps == tasks[tid].DependsOn
       IN [j \in 1..Len(deps) |-> <<tid, deps[j]>>] \o EdgeList(tasks, i + 1)

\* no dependency is looked up in the task set
IsDangling_never(e) == FALSE

\* dep not in all_task_ids
IsDangling(e) == e[2] \notin TopoIDs

\* graph[dep]: the dependents of dep, one entry per DependsOn entry
RECURSIVE Dependents(_, _)
Dependents(edges, dep) ==
  IF edges = <<>> THEN <<>>
  ELSE (IF Head(edges)[2] = dep THEN <<Head(edges)[1]>> ELSE <<>>)
       \o Dependents(Tail(edges), dep)

\* insertion of tid before the tasks of its own rank: the sort is not stable
RECURSIVE InsertByRank_before_equal(_, _, _)
InsertByRank_before_equal(tid, sorted, tasks) ==
  IF sorted = <<>> THEN <<tid>>
  ELSE IF PriorityRank(tasks[tid].Priority) <= PriorityRank(tasks[Head(sorted)].Priority)
       THEN <<tid>> \o sorted
       ELSE <<Head(sorted)>> \o InsertByRank_before_equal(tid, Tail(sorted), tasks)

\* stable insertion of tid into a list sorted by priority rank
RECURSIVE InsertByRank(_, _, _)
InsertByRank(tid, sorted, tasks) ==
  IF sorted = <<>> THEN <<tid>>
  ELSE IF PriorityRank(tasks[tid].Priority) < PriorityRank(tasks[Head(sorted)].Priority)
       THEN <<tid>> \o sorted
       ELSE <<Head(sorted)>> \o InsertByRank(tid, Tail(sorted), tasks)

\* sorted(list(queue), key=rank): Python's sort is stable
RECURSIVE ready_sorted(_, _)
ready_sorted(q, tasks) ==
  IF q = <<>> THEN <<>>
  ELSE InsertByRank(q[Len(q)], ready_sorted(SubSeq(q, 1, Len(q) - 1), tasks), tasks)

\* deque.remove(x): the first occurrence
RECURSIVE RemoveFirst(_, _)
RemoveFirst(q, x) ==
  IF q = <<>> THEN <<>>
  ELSE IF Head(q) = x THEN Tail(q)
  ELSE <<Head(q)>> \o RemoveFirst(Tail(q), x)

\* the loop over graph[current]: <<in_degree, queue>> afterwards
RECURSIVE VisitNeighbors(_, _, _)
VisitNeighbors(nbrs, indeg, q) ==
  IF nbrs = <<>> THEN <<indeg, q>>
  ELSE LET n == Head(nbrs)
           d == indeg[n] - 1
       IN VisitNeighbors(Tail(nbrs), [indeg EXCEPT ![n] = d],
                         IF d = 0 THEN Append(q, n) ELSE q)

\* the error naming one unresolved task only
SortedIds_first(S, i) == IF S = {} THEN <<>> ELSE <<CHOOSE x \in S : TRUE>>

\* sorted(ids): the IDs are named in their sort order
RECURSIVE SortedIds(_, _)
SortedIds(S, i) ==
  IF i > Len(TopoOrder) THEN <<>>
  ELSE (IF TopoOrder[i] \in S THEN <<TopoOrder[i]>> ELSE <<>>) \o SortedIds(S, i + 1)

SeqRange(q) == {q[i] : i \in 1..Len(q)}

TopoOff ==
  /\ tp_pc = "off"
  /\ tp_tasks = <<>>
  /\ graph = <<>>
  /\ in_degree = <<>>
  /\ queue = <<>>
  /\ ordered_ids = <<>>
  /\ tp_err = <<>>

\* in_degree after the first loop, counting one dependency per task at most
count_in_degree_once(tasks) ==
  [tid \in TopoIDs |-> IF tasks[tid].DependsOn = <<>> THEN 0 ELSE 1]

\* in_degree after the first loop: one count per DependsOn entry
count_in_degree(tasks) ==
  [tid \in TopoIDs |-> Len(tasks[tid].DependsOn)]

\* the first loop and the seeding of the queue
topo_build ==
  /\ tp_pc = "start"
  /\ LET edges == EdgeList(tp_tasks, 1)
         dangling == SelectSeq(edges, IsDangling)
         indeg == count_in_degree(tp_tasks)
     IN IF dangling # <<>>
        THEN /\ tp_pc' = "dangling"
             /\ tp_err' = dangling[1]
             /\ UNCHANGED <<graph, in_degree, queue>>
        ELSE /\ tp_pc' = "loop"
             /\ graph' = [dep \in TopoIDs |-> Dependents(edges, dep)]
             /\ in_degree' = indeg
             /\ queue' = SelectSeq(TopoOrder, LAMBDA tid : indeg[tid] = 0)
             /\ UNCHANGED tp_err
  /\ UNCHANGED <<tp_tasks, ordered_ids>>
  /\ UNCHANGED <<boardVars, allocVars, recVars, progVars, peerVars>>

\* one iteration of the while loop
topo_step ==
  /\ tp_pc = "loop"
  /\ queue # <<>>
  /\ LET current == ready_sorted(queue, tp_tasks)[1]
         after == VisitNeighbors(graph[current], in_degree, RemoveFirst(queue, current))
     IN /\ ordered_ids' = Append(ordered_ids, current)
        /\ in_degree' = after[1]
        /\ queue' = after[2]
  /\ UNCHANGED <<tp_pc, tp_tasks, graph, tp_err>>
  /\ UNCHANGED <<boardVars, allocVars, recVars, progVars, peerVars>>

\* topo_finish returning whatever the loop emitted
topo_finish_truncating ==
  /\ tp_pc = "loop"
  /\ queue = <<>>
  /\ tp_pc' = "returned"
  /\ UNCHANGED <<tp_tasks, graph, in_degree, queue, ordered_ids, tp_err>>
  /\ UNCHANGED <<boardVars, allocVars, recVars, progVars, peerVars>>

\* the check after the loop
topo_finish ==
  /\ tp_pc = "loop"
  /\ queue = <<>>
  /\ IF Len(ordered_ids) # Len(TopoOrder)
     THEN /\ tp_pc' = "cycle"
          /\ tp_err' = SortedIds(TopoIDs \ SeqRange(ordered_ids), 1)
     ELSE /\ tp_pc' = "returned"
          /\ UNCHANGED tp_err
  /\ UNCHANGED <<tp_tasks, graph, in_degree, queue, ordered_ids>>
  /\ UNCHANGED <<boardVars, allocVars, recVars, progVars, peerVars>>

RECURSIVE SumLen(_, _)
SumLen(deps, i) ==
  IF i > Len(TopoOrder) THEN 0 ELSE Len(deps[TopoOrder[i]]) + SumLen(deps, i + 1)

DepLists == UNION {[1..n -> TopoIDs \cup {MissingID}] : n \in 0..MaxDeps}

TopoInit ==
  /\ tp_pc = "start"
  /\ \E deps \in [TopoIDs -> DepLists], prio \in [TopoIDs -> Priorities] :
       /\ SumLen(deps, 1) <= MaxEdges
       /\ tp_tasks = [tid \in TopoIDs |-> [DependsOn |-> deps[tid], Priority |-> prio[tid]]]
  /\ graph = <<>>
  /\ in_degree = <<>>
  /\ queue = <<>>
  /\ ordered_ids = <<>>
  /\ tp_err = <<>>

\* ======================================================= allocate_schedule
\* Instants are minutes since 00:00 of the day of the call; EstimatedHours
\* and hours_remaining are counted in minutes as well (one hour is 60).

WORK_START_HOUR == 9
WORK_END_HOUR == 17
LUNCH_START_HOUR == 12
LUNCH_END_HOUR == 13

\* datetime.hour
HourOf(t) == (t % 1440) \div 60

\* datetime.replace(hour=h, minute=0) on an instant with no seconds
ReplaceHour(t, h) == (t \div 1440) * 1440 + h * 60

Min(a, b) == IF a < b THEN a ELSE b

\* hours_to_work of one pass through the else branch
hours_to_work(remaining, t) ==
  LET h == Min(remaining, (WORK_END_HOUR - HourOf(t)) * 60)
  IN IF HourOf(t) < LUNCH_START_HOUR /\ HourOf(t) * 60 + h > LUNCH_START_HOUR * 60
     THEN (LUNCH_START_HOUR - HourOf(t)) * 60
     ELSE h

\* which branch of the while loop's if-chain the cursor takes
Branch(t) ==
  IF HourOf(t) < WORK_START_HOUR THEN "before"
  ELSE IF LUNCH_START_HOUR <= HourOf(t) /\ HourOf(t) < LUNCH_END_HOUR THEN "lunch"
  ELSE IF HourOf(t) >= WORK_END_HOUR THEN "after"
  ELSE "work"

AllocOff ==
  /\ al_pc = "off"
  /\ al_now = 0
  /\ task_list = <<>>
  /\ al_i = 0
  /\ hours_remaining = 0
  /\ current_time = 0
  /\ task_start = None
  /\ al_span = None

\* alloc_snap putting a cursor inside the lunch window at the start of lunch
alloc_snap_lunch_start ==
  /\ al_pc = "loop"
  /\ hours_remaining > 0
  /\ Branch(current_time) \in {"before", "lunch"}
  /\ current_time' = IF Branch(current_time) = "before"
                     THEN ReplaceHour(current_time, WORK_START_HOUR)
                     ELSE ReplaceHour(current_time, LUNCH_START_HOUR)
  /\ UNCHANGED <<al_pc, al_now, task_list, al_i, hours_remaining, task_start, al_span>>
  /\ UNCHANGED <<boardVars, topoVars, recVars, progVars, peerVars>>

\* the cursor is before the working day or inside the lunch window
alloc_snap ==
  /\ al_pc = "loop"
  /\ hours_remaining > 0
  /\ Branch(current_time) \in {"before", "lunch"}
  /\ current_time' = IF Branch(current_time) = "before"
                     THEN ReplaceHour(current_time, WORK_START_HOUR)
                     ELSE ReplaceHour(current_time, LUNCH_END_HOUR)
  /\ UNCHANGED <<al_pc, al_now, task_list, al_i, hours_remaining, task_start, al_span>>
  /\ UNCHANGED <<boardVars, topoVars, recVars, progVars, peerVars>>

\* the cursor is at or past the end of the working day
alloc_next_day ==
  /\ al_pc = "loop"
  /\ hours_remaining > 0
  /\ Branch(current_time) = "after"
  /\ current_time' = ReplaceHour(current_time + 1440, WORK_START_HOUR)
  /\ UNCHANGED <<al_pc, al_now, task_list, al_i, hours_remaining, task_start, al_span>>
  /\ UNCHANGED <<boardVars, topoVars, recVars, progVars, peerVars>>

\* the else branch: work from the cursor
alloc_work ==
  /\ al_pc = "loop"
  /\ hours_remaining > 0
  /\ Branch(current_time) = "work"
  /\ LET h == hours_to_work(hours_remaining, current_time)
     IN /\ task_start' = IF task_start = None THEN <<current_time>> ELSE task_start
        /\ current_time' = current_time + h
        /\ hours_remaining' = hours_remaining - h
        /\ al_span' = <<current_time, current_time + h>>
  /\ UNCHANGED <<al_pc, al_now, task_list, al_i>>
  /\ UNCHANGED <<boardVars, topoVars, recVars, progVars, peerVars>>

\* alloc_end_task with the cursor put back to the start of the day for the
\* next task
alloc_end_task_restart ==
  /\ al_pc = "loop"
  /\ hours_remaining <= 0
  /\ task_list' = [task_list EXCEPT ![al_i].ScheduledStart = task_start,
                                    ![al_i].ScheduledEnd = <<current_time>>]
  /\ IF al_i < Len(task_list)
     THEN /\ al_i' = al_i + 1
          /\ hours_remaining' = task_list[al_i + 1].EstimatedHours
          /\ task_start' = None
          /\ al_pc' = "loop"
     ELSE /\ al_pc' = "done"
          /\ UNCHANGED <<al_i, hours_remaining, task_start>>
  /\ current_time' = ReplaceHour(al_now, WORK_START_HOUR)
  /\ UNCHANGED <<al_now, al_span>>
  /\ UNCHANGED <<boardVars, topoVars, recVars, progVars, peerVars>>

\* the while loop ends: the task gets its window, the for loop moves on
alloc_end_task ==
  /\ al_pc = "loop"
  /\ hours_remaining <= 0
  /\ task_list' = [task_list EXCEPT ![al_i].ScheduledStart = task_start,
                                    ![al_i].ScheduledEnd = <<current_time>>]
  /\ IF al_i < Len(task_list)
     THEN /\ al_i' = al_i + 1
          /\ hours_remaining' = task_list[al_i + 1].EstimatedHours
          /\ task_start' = None
          /\ al_pc' = "loop"
     ELSE /\ al_pc' = "done"
          /\ UNCHANGED <<al_i, hours_remaining, task_start>>
  /\ UNCHANGED <<al_now, current_time, al_span>>
  /\ UNCHANGED <<boardVars, topoVars, recVars, progVars, peerVars>>

AllocInit ==
  /\ al_pc = "loop"
  /\ al_now \in AllocNows
  /\ \E n \in 1..MaxAllocTasks : \E est \in [1..n -> EstimatedChoices] :
       /\ task_list = [i \in 1..n |-> [EstimatedHours |-> est[i],
                                       ScheduledStart |-> None, ScheduledEnd |-> None]]
       /\ hours_remaining = est[1]
  /\ al_i = 1
  /\ current_time = ReplaceHour(al_now, WORK_START_HOUR)
  /\ task_start = None
  /\ al_span = None

\* ------------------------------------------------------------------- Init

\* a freshly imported row: the optional columns are absent
InitRow(tid, o, deps) ==
  [ TaskID |-> tid, DependsOn |-> JoinPipe(deps), Owner |-> o,
    Status |-> None, ActualHours |-> None, LastComment |-> None,
    CommentLog |-> None, LastUpdated |-> None, ActualSeconds |-> None,
    InProgressStart |-> None ]

\* the row another user's board saved when it started the task at time 0
StartedRow(tid, o, deps) ==
  tasks_to_dataframe(
    append_comment_log(
      update_task_status(load_task(InitRow(tid, o, deps)), "In Progress", 0),
      <<"Move ->", "In Progress">>, None, 0))

\* dependency lists accepted by topological_sort at start-up
DepChoices ==
  [ T1 |-> {<<>>},
    T2 |-> {<<>>, <<"T1">>} ]

RowChoices(t) ==
  UNION {{InitRow(t, o, d), StartedRow(t, o, d)} : o \in Owners, d \in DepChoices[t]}

\* the stores the board can start on: the tasks of its owner are fresh, and
\* each other user may have started one task that is not blocked
StartStores ==
  { rows \in [TaskIDs -> UNION {RowChoices(t) : t \in TaskIDs}] :
      /\ \A t \in TaskIDs : rows[t] \in RowChoices(t)
      /\ \A t \in TaskIDs : rows[t].Owner = BoardOwner => rows[t].Status = None
      /\ \A t \in TaskIDs : rows[t].Status # None => rows[t].DependsOn = <<>>
      /\ \A t, u \in TaskIDs :
           (t # u /\ rows[t].Owner = rows[u].Owner) =>
             (rows[t].Status = None \/ rows[u].Status = None) }

BoardOff ==
  /\ owner = BoardOwner
  /\ owners = {}
  /\ tasks_all = <<>>
  /\ csv = <<>>
  /\ csv_mtime = 0
  /\ last_csv_mtime = None
  /\ now = 0
  /\ pc = "off"
  /\ cur = NoCur
  /\ last = NoRequest

\* the main block has loaded the store; show_kanban_ui is about to poll it
BoardInit ==
  /\ owner = BoardOwner
  /\ csv \in StartStores
  /\ owners = {csv[t].Owner : t \in TaskIDs}
  /\ tasks_all = load_all_tasks(csv)
  /\ csv_mtime = 0
  /\ last_csv_mtime = None
  /\ now = 0
  /\ pc = "init"
  /\ cur = NoCur
  /\ last = NoRequest

RecordOff ==
  /\ rec_pc = "off"
  /\ rec_task = <<>>
  /\ rec_now = 0
  /\ rec_calls = 0
  /\ rec_last = <<>>

ProgressOff ==
  /\ pg_pc = "off"
  /\ pg_tasks = <<>>
  /\ pg_project = None
  /\ pg_milestone = None
  /\ pg_result = 0

PeerOff == peer_last = NoRequest

BoardNext ==
  \/ \E tid \in TaskIDs, s \in StatusSet : on_drop(tid, s)
  \/ \E t \in Selections : do_pause(t)
  \/ \E t \in Selections : do_complete(t)
  \/ \E t \in Selections : do_cancel(t)
  \/ \E t \in Selections : do_reassign(t)
  \/ \E o \in Owners : reassign_ok(o)
  \/ reassign_dismiss
  \/ \E c \in Comments : prompt_comment(c)
  \/ poll_csv
  \/ Tick

TopoNext ==
  \/ topo_build
  \/ topo_step
  \/ topo_finish

AllocNext ==
  \/ alloc_snap
  \/ alloc_next_day
  \/ alloc_work
  \/ alloc_end_task

\* the board of one owner
Init == BoardInit /\ TopoOff /\ AllocOff /\ RecordOff /\ ProgressOff /\ PeerOff

Next == BoardNext

Spec == Init /\ [][Next]_vars

\* topological_sort on a task map drawn from the bounded inputs
InitTopo == TopoInit /\ BoardOff /\ AllocOff /\ RecordOff /\ ProgressOff /\ PeerOff

NextTopo == TopoNext

SpecTopo == InitTopo /\ [][NextTopo]_vars

\* allocate_schedule on a task list drawn from the bounded inputs
InitAlloc == AllocInit /\ BoardOff /\ TopoOff /\ RecordOff /\ ProgressOff /\ PeerOff

NextAlloc == AllocNext

SpecAlloc == InitAlloc /\ [][NextAlloc]_vars

\* allocate_schedule runs on: a call that can take a step takes one
SpecAllocLive == InitAlloc /\ [][NextAlloc]_vars /\ WF_vars(NextAlloc)

\* ============================================= one task dict, call by call

RecCall(op, arg, raised) ==
  [op |-> op, arg |-> arg, raised |-> raised, before |-> rec_task, at |-> rec_now]

\* update_task_status(task, status): the comment prompt is skipped
rec_update(status) ==
  /\ rec_pc = "ready"
  /\ rec_calls < MaxCalls
  /\ IF status \notin StatusSet
     THEN /\ rec_task' = update_timing(rec_task, status, rec_now)
          /\ rec_last' = RecCall("update", status, TRUE)
     ELSE /\ rec_task' = append_comment_log(update_task_status(rec_task, status, rec_now),
                                            <<"Status ->", status>>, None, rec_now)
          /\ rec_last' = RecCall("update", status, FALSE)
  /\ rec_calls' = rec_calls + 1
  /\ UNCHANGED <<rec_pc, rec_now>>
  /\ UNCHANGED <<boardVars, topoVars, allocVars, progVars, peerVars>>

\* ok() of the owner dialog on the task dict, the comment prompt skipped
rec_reassign(new_owner) ==
  /\ rec_pc = "ready"
  /\ rec_calls < MaxCalls
  /\ new_owner # rec_task.Owner
  /\ rec_task' = append_comment_log([rec_task EXCEPT !.Owner = new_owner],
                                    <<"Reassign to", new_owner>>, None, rec_now)
  /\ rec_last' = RecCall("reassign", new_owner, FALSE)
  /\ rec_calls' = rec_calls + 1
  /\ UNCHANGED <<rec_pc, rec_now>>
  /\ UNCHANGED <<boardVars, topoVars, allocVars, progVars, peerVars>>

\* the wall clock reads another value, later or earlier
rec_clock(t) ==
  /\ rec_pc = "ready"
  /\ t # rec_now
  /\ rec_now' = t
  /\ UNCHANGED <<rec_pc, rec_task, rec_calls, rec_last>>
  /\ UNCHANGED <<boardVars, topoVars, allocVars, progVars, peerVars>>

\* a freshly loaded Pending task
RecordInit ==
  /\ rec_pc = "ready"
  /\ rec_task = load_task(InitRow("T1", BoardOwner, <<>>))
  /\ rec_now \in RecTimes
  /\ rec_calls = 0
  /\ rec_last = [op |-> "none", arg |-> "", raised |-> FALSE,
                 before |-> rec_task, at |-> rec_now]

RecordNext ==
  \/ \E status \in StatusSet \cup {InvalidStatus} : rec_update(status)
  \/ \E o \in Owners : rec_reassign(o)
  \/ \E t \in RecTimes : rec_clock(t)

\* update_task_status and reassignment on one task dict
InitRecord == RecordInit /\ BoardOff /\ TopoOff /\ AllocOff /\ ProgressOff /\ PeerOff

NextRecord == RecordNext

SpecRecord == InitRecord /\ [][NextRecord]_vars

\* ================================================ two boards on one store

\* the board of another user, its task map fresh from the store, carries out
\* one transition of a task of its user and saves its whole map
peer_transition(tid, new_status) ==
  /\ csv_mtime < MaxOps
  /\ LET peer_all == load_all_tasks(csv)
         t == peer_all[tid]
     IN /\ t.Owner # owner
        /\ new_status \in allowed[t.Status]
        /\ new_status = "In Progress" =>
             /\ ~is_blocked(t, peer_all)
             /\ \A u \in TaskIDs \ {tid} :
                  ~(peer_all[u].Owner = t.Owner /\ peer_all[u].Status = "In Progress")
        /\ csv' = save_all_tasks_to_csv(
                    [peer_all EXCEPT
                       ![tid] = append_comment_log(update_task_status(t, new_status, now),
                                                   <<"Move ->", new_status>>, None, now)])
  /\ csv_mtime' = csv_mtime + 1
  /\ peer_last' = Request(tid, new_status, "ok")
  /\ UNCHANGED <<owner, owners, tasks_all, last_csv_mtime, now, pc, cur, last>>
  /\ UNCHANGED <<topoVars, allocVars, recVars, progVars>>

SharedNext ==
  \/ BoardNext
  \/ \E tid \in TaskIDs, s \in StatusSet : peer_transition(tid, s)

\* the stores two boards share: one task of this board's owner, one of
\* the other user's
SharedStores ==
  {rows \in StartStores : rows["T1"].Owner = BoardOwner /\ rows["T2"].Owner # BoardOwner}

SharedInit == BoardInit /\ csv \in SharedStores

\* the board of one owner and the board of another user on the same store
InitShared == SharedInit /\ TopoOff /\ AllocOff /\ RecordOff /\ ProgressOff /\ PeerOff

NextShared == SharedNext

SpecShared == InitShared /\ [][NextShared]_vars

\* ======================================================= calc_progress_all

\* what a task of the progress map can be: project, milestone and Status
ProgressKinds ==
  << [Project |-> "P1", Milestone |-> "M1", Status |-> "Completed"],
     [Project |-> "P1", Milestone |-> "M1", Status |-> "Pending"],
     [Project |-> "P1", Milestone |-> "M2", Status |-> "Completed"],
     [Project |-> "P1", Milestone |-> "M2", Status |-> "In Progress"],
     [Project |-> "P2", Milestone |-> "M1", Status |-> "Completed"],
     [Project |-> "P2", Milestone |-> "M1", Status |-> "Canceled"] >>

ProjectArgs == {None, <<"P1">>, <<"P2">>}

MilestoneArgs == {None, <<"M1">>, <<"M2">>}

\* how many tasks there are of each of the first k kinds, room tasks at most
RECURSIVE KindCounts(_, _)
KindCounts(k, room) ==
  IF k = 0 THEN {<<>>}
  ELSE UNION {{Append(c, m) : c \in KindCounts(k - 1, room - m)} : m \in 0..room}

\* the rows of kind k onwards, the next row being the i-th of the map; the
\* owners alternate along the map
RECURSIVE ProgressRows(_, _, _)
ProgressRows(counts, k, i) ==
  IF k > Len(counts) THEN <<>>
  ELSE IF counts[k] = 0 THEN ProgressRows(counts, k + 1, i)
  ELSE << [ TaskID |-> i, Project |-> ProgressKinds[k].Project,
            Milestone |-> ProgressKinds[k].Milestone,
            Status |-> ProgressKinds[k].Status,
            Owner |-> IF i % 2 = 1 THEN "Alice" ELSE "Bob" ] >>
       \o ProgressRows([counts EXCEPT ![k] = @ - 1], k, i + 1)

ProgressMaps ==
  {ProgressRows(c, 1, 1) : c \in KindCounts(Len(ProgressKinds), MaxProgTasks)}

\* the two filters of the loop: an argument that is not given filters nothing
in_scope(t, project, milestone) ==
  /\ project # None => t.Project = project[1]
  /\ milestone # None => t.Milestone = milestone[1]

\* round taking the quotient without its fraction
round_down(num, den) == num \div den

\* round(num / den): to the nearest integer, a half to the even neighbour
round(num, den) ==
  LET q == num \div den
      r == num % den
  IN IF 2 * r < den THEN q
     ELSE IF 2 * r > den THEN q + 1
     ELSE IF q % 2 = 0 THEN q ELSE q + 1

calc_progress_all(all, project, milestone) ==
  LET relevant == SelectSeq(all, LAMBDA t : in_scope(t, project, milestone))
      completed == Len(SelectSeq(relevant, LAMBDA t : t.Status = "Completed"))
  IN IF relevant = <<>> THEN 0
     ELSE round(completed * 100, Len(relevant))

\* one call of calc_progress_all
progress_call ==
  /\ pg_pc = "ready"
  /\ pg_result' = calc_progress_all(pg_tasks, pg_project, pg_milestone)
  /\ pg_pc' = "returned"
  /\ UNCHANGED <<pg_tasks, pg_project, pg_milestone>>
  /\ UNCHANGED <<boardVars, topoVars, allocVars, recVars, peerVars>>

ProgressInit ==
  /\ pg_pc = "ready"
  /\ pg_tasks \in ProgressMaps
  /\ pg_project \in ProjectArgs
  /\ pg_milestone \in MilestoneArgs
  /\ pg_result = 0

ProgressNext == progress_call

\* calc_progress_all on a task map and a scope drawn from the bounded inputs
InitProgress == ProgressInit /\ BoardOff /\ TopoOff /\ AllocOff /\ RecordOff /\ PeerOff

NextProgress == ProgressNext

SpecProgress == InitProgress /\ [][NextProgress]_vars

\* ================================================================ properties

\* the lifecycle table: the pairs (from, to) a task's Status may move along
TransitionTable ==
  { <<"Pending", "In Progress">>, <<"Pending", "Canceled">>,
    <<"Paused", "In Progress">>, <<"Paused", "Canceled">>,
    <<"In Progress", "Paused">>, <<"In Progress", "Completed">>,
    <<"In Progress", "Canceled">>, <<"Completed", "Pending">> }

\* this step is the board handling a request to move tid to status to
Requested(tid, to) ==
  /\ pc = "idle"
  /\ last' # last
  /\ last'.tid = tid
  /\ last'.to = to

\* the request of this step is turned down with a message; nothing is touched
Refused ==
  /\ last'.res \notin {"prompt", "dialog", "ok", "none"}
  /\ pc' = "idle"
  /\ tasks_all' = tasks_all
  /\ csv' = csv
  /\ csv_mtime' = csv_mtime

\* the request of this step is carried out: the Status is written
Accepted(tid, to) ==
  /\ last'.res = "prompt"
  /\ pc' = "prompt_comment"
  /\ tasks_all'[tid].Status = to

InProgressOf(o, all) ==
  {tid \in DOMAIN all : all[tid].Owner = o /\ all[tid].Status = "In Progress"}

\* tid has a dependency that is missing or not Completed
HasOpenDependency(tid, all) ==
  \E k \in 1..Len(all[tid].DependsOn) :
    LET dep == all[tid].DependsOn[k]
    IN dep \notin DOMAIN all \/ all[dep].Status # "Completed"

\* C1: in every reachable state every owner has at most one task whose
\* Status is In Progress.
C1_SingleInProgressPerOwner ==
  \A o \in Owners : Cardinality(InProgressOf(o, tasks_all)) <= 1

\* C2: every transition that move_task_to_status reports as successful is
\* present afterwards in the shared task map and in the store: the new
\* Status and the log entry of the transition.
C2_TransitionAtomic ==
  (pc = "idle" /\ last.res = "ok" /\ last.to \in StatusSet) =>
    /\ tasks_all[last.tid].Status = last.to
    /\ tasks_all[last.tid].CommentLog # <<>>
    /\ load_all_tasks(csv)[last.tid].Status = last.to
    /\ load_all_tasks(csv)[last.tid].CommentLog # <<>>

\* C10: every task has InProgressStart non-null if and only if its Status is
\* In Progress, in the task map and in the store.
C10_StartSetIffInProgress ==
  \A tid \in TaskIDs :
    /\ (tasks_all[tid].InProgressStart # None) <=> (tasks_all[tid].Status = "In Progress")
    /\ (load_all_tasks(csv)[tid].InProgressStart # None)
         <=> (load_all_tasks(csv)[tid].Status = "In Progress")

\* a task that was In Progress and has left it, next to one that is In Progress
C10_Witness ==
  \E t, u \in TaskIDs :
    /\ tasks_all[t].Status = "Paused"
    /\ tasks_all[t].InProgressStart = None
    /\ tasks_all[t].ActualSeconds > 0
    /\ tasks_all[u].Status = "In Progress"
    /\ tasks_all[u].InProgressStart # None

\* C3: whenever topological_sort returns an order, every task occurs in it
\* once, and every entry of its DependsOn, duplicated entries included,
\* occurs at a strictly smaller position.
C3_TopologicalValidity ==
  tp_pc = "returned" =>
    \A T \in TopoIDs :
      /\ Cardinality({j \in 1..Len(ordered_ids) : ordered_ids[j] = T}) = 1
      /\ \A k \in 1..Len(tp_tasks[T].DependsOn) :
           \A j \in 1..Len(ordered_ids) :
             ordered_ids[j] = T =>
               \E i \in 1..(j - 1) : ordered_ids[i] = tp_tasks[T].DependsOn[k]

\* an order was returned for a map in which a task names one dependency twice
\* and another task has two different dependencies
C3_Witness ==
  /\ tp_pc = "returned"
  /\ \E T \in TopoIDs :
       /\ Len(tp_tasks[T].DependsOn) = 2
       /\ tp_tasks[T].DependsOn[1] = tp_tasks[T].DependsOn[2]
  /\ \E T \in TopoIDs : tp_tasks[T].DependsOn # <<>> /\ ordered_ids[Len(ordered_ids)] # T /\ ordered_ids[1] # T

\* C4: no span of time that allocate_schedule consumes for a task overlaps
\* the lunch window [12:00, 13:00) or lies outside the working day
\* [09:00, 17:00), and no ScheduledEnd is later than 17:00 of its day.
C4_SpansInsideWorkingTime ==
  /\ al_span # None =>
       LET day == (al_span[1] \div 1440) * 1440
       IN /\ day + WORK_START_HOUR * 60 <= al_span[1]
          /\ al_span[2] <= day + WORK_END_HOUR * 60
          /\ \/ al_span[2] <= day + LUNCH_START_HOUR * 60
             \/ day + LUNCH_END_HOUR * 60 <= al_span[1]
  /\ \A i \in 1..Len(task_list) :
       task_list[i].ScheduledEnd # None =>
         task_list[i].ScheduledEnd[1] % 1440 <= WORK_END_HOUR * 60

\* what the store holds
stored == load_all_tasks(csv)

\* the request's guards hold: the task is the board owner's, and for a start
\* it has no open dependency and the owner has no other task In Progress
GuardsSatisfied(tid, to) ==
  /\ tasks_all[tid].Owner = owner
  /\ to = "In Progress" =>
       /\ ~HasOpenDependency(tid, tasks_all)
       /\ InProgressOf(owner, tasks_all) \subseteq {tid}

\* C5: no board operation changes a task's Status, in the task map or in the
\* store, along a pair outside the lifecycle table, and a request for a pair
\* outside the table is rejected and leaves the task unchanged.  (A step of
\* the poll that reloads the map copies the store and is no board operation.)
C5_OnlyTableTransitions ==
  [][ /\ last_csv_mtime' = last_csv_mtime =>
           \A tid \in TaskIDs :
             tasks_all'[tid].Status # tasks_all[tid].Status =>
               <<tasks_all[tid].Status, tasks_all'[tid].Status>> \in TransitionTable
      /\ csv' # csv =>
           \A tid \in TaskIDs :
             stored'[tid].Status # stored[tid].Status =>
               <<stored[tid].Status, stored'[tid].Status>> \in TransitionTable
      /\ \A tid \in TaskIDs, to \in StatusSet :
           (Requested(tid, to) /\ <<tasks_all[tid].Status, to>> \notin TransitionTable)
             => Refused
    ]_vars

\* a drop of an In Progress task on the Pending column was turned down, and
\* the store holds a transition made before
C5_Witness ==
  /\ pc = "idle"
  /\ last.res = "Move not allowed"
  /\ last.to = "Pending"
  /\ tasks_all[last.tid].Status = "In Progress"
  /\ stored[last.tid].Status = "In Progress"
  /\ stored[last.tid].Owner = owner

OpenDepLists == UNION {[1..n -> TaskIDs \cup {MissingID}] : n \in 1..MaxDeps}

\* C7: a task with a DependsOn entry that names a missing task or a task
\* whose Status is not Completed is blocked, and a request to move a blocked
\* task to In Progress is refused: no task field changes, no log entry is
\* appended, nothing is saved.
C7_BlockedStartRefused ==
  /\ [](\A tid \in DOMAIN tasks_all, deps \in OpenDepLists :
          LET task == [tasks_all[tid] EXCEPT !.DependsOn = deps]
          IN (\E k \in 1..Len(deps) :
                deps[k] \notin DOMAIN tasks_all \/ tasks_all[deps[k]].Status # "Completed")
               => is_blocked(task, tasks_all))
  /\ [][ \A tid \in TaskIDs :
           (Requested(tid, "In Progress") /\ HasOpenDependency(tid, tasks_all))
             => Refused
       ]_vars

\* the owner's start of a Pending task was refused as blocked while its
\* dependency was In Progress
C7_Witness ==
  /\ pc = "idle"
  /\ last.res = "Blocked"
  /\ last.to = "In Progress"
  /\ tasks_all[last.tid].Status = "Pending"
  /\ tasks_all[last.tid].CommentLog = <<>>
  /\ \E k \in 1..Len(tasks_all[last.tid].DependsOn) :
       tasks_all[tasks_all[last.tid].DependsOn[k]].Status = "In Progress"

\* C8: for T1 without dependencies and T2 depending on T1: while T1 is not
\* Completed, T2 is blocked with one reason naming T1; once T1 is Completed,
\* T2 is not blocked and the owner's move of T2 from Pending to In Progress is
\* carried out.
C8_BlockedUntilDependencyCompleted ==
  [][ (tasks_all["T1"].DependsOn = <<>> /\ tasks_all["T2"].DependsOn = <<"T1">>) =>
        LET reasons == get_block_reasons(tasks_all["T2"], tasks_all)
        IN /\ tasks_all["T1"].Status # "Completed" =>
                /\ is_blocked(tasks_all["T2"], tasks_all)
                /\ Len(reasons) = 1
                /\ reasons[1].dep = "T1"
           /\ tasks_all["T1"].Status = "Completed" =>
                /\ ~is_blocked(tasks_all["T2"], tasks_all)
                /\ reasons = <<>>
                /\ ( /\ Requested("T2", "In Progress")
                     /\ tasks_all["T2"].Status = "Pending"
                     /\ tasks_all["T2"].Owner = owner
                     /\ InProgressOf(owner, tasks_all) = {} )
                     => Accepted("T2", "In Progress")
    ]_vars

\* T1 went Pending -> In Progress -> Completed and T2 was then started
C8_Witness ==
  /\ tasks_all["T2"].DependsOn = <<"T1">>
  /\ tasks_all["T1"].Status = "Completed"
  /\ Len(tasks_all["T1"].CommentLog) = 2
  /\ tasks_all["T2"].Status = "In Progress"
  /\ last = Request("T2", "In Progress", "ok")

\* C9: a request to move a task to In Progress is refused, with no state
\* change, while the same owner has a different task In Progress; it is
\* carried out when the owner has no other task In Progress and the task is
\* Pending or Paused and not blocked.
C9_SingleActiveGuard ==
  [][ \A tid \in TaskIDs :
        /\ ( /\ Requested(tid, "In Progress")
             /\ InProgressOf(tasks_all[tid].Owner, tasks_all) \ {tid} # {} )
             => Refused
        /\ ( /\ Requested(tid, "In Progress")
             /\ tasks_all[tid].Status \in {"Pending", "Paused"}
             /\ GuardsSatisfied(tid, "In Progress") )
             => Accepted(tid, "In Progress")
    ]_vars

\* a start was refused because of the owner's task In Progress; that task
\* has left In Progress since, and the start was then carried out
C9_Witness ==
  /\ last.to = "In Progress"
  /\ last.res = "ok"
  /\ tasks_all[last.tid].Status = "In Progress"
  /\ \E u \in TaskIDs \ {last.tid} :
       /\ tasks_all[u].Owner = tasks_all[last.tid].Owner
       /\ tasks_all[u].Status \in {"Paused", "Completed", "Canceled"}
       /\ tasks_all[u].CommentLog # <<>>
       /\ tasks_all[u].CommentLog[1].label = <<"Move ->", "In Progress">>

\* this step is a call that carried out a status transition
RecTransition ==
  /\ rec_calls' = rec_calls + 1
  /\ rec_last'.op = "update"
  /\ ~rec_last'.raised

\* C11: a transition into In Progress at time t0 records t0; the transition
\* that leaves In Progress at time t1 (to Paused, Completed or Canceled)
\* increases ActualSeconds by exactly t1 - t0 if t1 >= t0, and by 0 if
\* t1 < t0.
C11_ElapsedTimeAccounted ==
  [][ /\ ( /\ RecTransition
           /\ rec_task.Status # "In Progress"
           /\ rec_task.InProgressStart = None
           /\ rec_task'.Status = "In Progress" )
           => rec_task'.InProgressStart = <<rec_now>>
      /\ ( /\ RecTransition
           /\ rec_task.Status = "In Progress"
           /\ rec_task.InProgressStart # None
           /\ rec_task'.Status \in {"Paused", "Completed", "Canceled"} )
           => LET t0 == rec_task.InProgressStart[1]
                  t1 == rec_now
              IN rec_task'.ActualSeconds - rec_task.ActualSeconds
                   = IF t1 >= t0 THEN t1 - t0 ELSE 0
      /\ ( /\ RecTransition
           /\ rec_last.op = "update" /\ ~rec_last.raised
           /\ rec_last.arg = "In Progress"
           /\ rec_last.before.Status # "In Progress"
           /\ rec_last.before.InProgressStart = None
           /\ rec_task'.Status \in {"Paused", "Completed", "Canceled"} )
           => rec_task'.ActualSeconds - rec_task.ActualSeconds
                = IF rec_now >= rec_last.at THEN rec_now - rec_last.at ELSE 0
    ]_vars

\* a task started at 50 was paused when the clock read 20
C11_Witness ==
  /\ rec_last.op = "update" /\ ~rec_last.raised
  /\ rec_last.arg = "Paused"
  /\ rec_last.before.Status = "In Progress"
  /\ rec_last.before.InProgressStart = <<50>>
  /\ rec_last.at = 20
  /\ rec_task.ActualSeconds = rec_last.before.ActualSeconds

\* C12: across status transitions, the reopen Completed -> Pending among
\* them, and reassignments, ActualSeconds never decreases, and it changes
\* only in a transition that leaves In Progress.
C12_ActualSecondsMonotone ==
  [][ (rec_calls' = rec_calls + 1 /\ ~rec_last'.raised) =>
        /\ rec_task'.ActualSeconds >= rec_task.ActualSeconds
        /\ rec_task'.ActualSeconds # rec_task.ActualSeconds =>
             /\ rec_last'.op = "update"
             /\ rec_task.Status = "In Progress"
             /\ rec_task'.Status # "In Progress"
    ]_vars

\* a Completed task with time on it was reopened and kept its time
C12_Witness ==
  /\ rec_last.op = "update" /\ ~rec_last.raised
  /\ rec_last.arg = "Pending"
  /\ rec_last.before.Status = "Completed"
  /\ rec_last.before.ActualSeconds > 0
  /\ rec_task.Status = "Pending"
  /\ rec_task.ActualSeconds = rec_last.before.ActualSeconds

\* the tasks of the map given to topological_sort that T names in DependsOn
DirectDeps(T) == {tp_tasks[T].DependsOn[k] : k \in 1..Len(tp_tasks[T].DependsOn)}

HasDangling == \E T \in TopoIDs : DirectDeps(T) \ TopoIDs # {}

RECURSIVE DepClosure(_, _)
DepClosure(S, n) ==
  IF n = 0 THEN S
  ELSE DepClosure(S \cup UNION {DirectDeps(x) \cap TopoIDs : x \in S}, n - 1)

\* the tasks T depends on, directly or through other tasks
Ancestors(T) == DepClosure(DirectDeps(T) \cap TopoIDs, Cardinality(TopoIDs))

OnCycle(T) == T \in Ancestors(T)

\* the tasks on a cycle and the tasks that depend on one, however indirectly
Unresolvable == {T \in TopoIDs : OnCycle(T) \/ \E C \in Ancestors(T) : OnCycle(C)}

\* C13: when the graph has a cycle (a task depending on itself included) and
\* no dangling reference, topological_sort returns no order; the error names
\* exactly the tasks never emitted, which are the tasks on a cycle and the
\* tasks that transitively depend on one.
C13_CycleErrorNamesResidual ==
  (tp_pc # "off" /\ ~HasDangling /\ Unresolvable # {}) =>
    /\ tp_pc \in {"start", "loop", "cycle"}
    /\ SeqRange(ordered_ids) \cap Unresolvable = {}
    /\ (tp_pc = "loop" /\ queue = <<>>) => Len(ordered_ids) # Cardinality(TopoIDs)
    /\ tp_pc = "cycle" =>
         /\ SeqRange(tp_err) = Unresolvable
         /\ Len(tp_err) = Cardinality(Unresolvable)
         /\ SeqRange(ordered_ids) = TopoIDs \ Unresolvable

\* A and B depend on each other and C depends on A: the error names all three
C13_Witness ==
  /\ tp_pc = "cycle"
  /\ tp_tasks["A"].DependsOn = <<"B">>
  /\ tp_tasks["B"].DependsOn = <<"A">>
  /\ tp_tasks["C"].DependsOn = <<"A">>
  /\ tp_err = <<"A", "B", "C">>

\* C14: if a DependsOn names an ID that is no key of the task set,
\* topological_sort fails before any task is emitted, with an error naming
\* the task and the missing ID, also when the graph has a cycle.
C14_DanglingFailsFirst ==
  (tp_pc # "off" /\ HasDangling) =>
    /\ tp_pc \in {"start", "dangling"}
    /\ ordered_ids = <<>>
    /\ tp_pc = "dangling" =>
         /\ Len(tp_err) = 2
         /\ tp_err[1] \in TopoIDs
         /\ tp_err[2] \in DirectDeps(tp_err[1]) \ TopoIDs

\* the error was raised for a map that also has a cycle
C14_Witness ==
  /\ tp_pc = "dangling"
  /\ tp_err[2] = MissingID
  /\ \E T \in TopoIDs : OnCycle(T)

\* the ranks of the priorities: High 1, Medium 2, Low 3, anything else 99
RankOf(p) ==
  CASE p = "High" -> 1
    [] p = "Medium" -> 2
    [] p = "Low" -> 3
    [] OTHER -> 99

\* C15: at every resolution step the emitted task is in the ready frontier
\* and has the minimum priority rank among the tasks in it.
C15_MinimumRankEmitted ==
  [][ ordered_ids' # ordered_ids =>
        LET emitted == ordered_ids'[Len(ordered_ids')]
        IN /\ ordered_ids' = Append(ordered_ids, emitted)
           /\ emitted \in SeqRange(queue)
           /\ \A i \in 1..Len(queue) :
                RankOf(tp_tasks[emitted].Priority) <= RankOf(tp_tasks[queue[i]].Priority)
    ]_vars

\* three independent tasks, the one with an unknown priority first in the
\* map: the High one was emitted first and the unknown one last
C15_Witness ==
  /\ tp_pc = "returned"
  /\ \A T \in TopoIDs : tp_tasks[T].DependsOn = <<>>
  /\ tp_tasks["A"].Priority = "Urgent"
  /\ tp_tasks["B"].Priority = "Low"
  /\ tp_tasks["C"].Priority = "High"
  /\ ordered_ids = <<"C", "B", "A">>

\* C16: allocate_schedule assigns the windows one after the other:
\* ScheduledStart[i] <= ScheduledEnd[i] <= ScheduledStart[i+1].
C16_WindowsSequential ==
  /\ \A i \in 1..Len(task_list) :
       (task_list[i].ScheduledStart # None /\ task_list[i].ScheduledEnd # None) =>
         task_list[i].ScheduledStart[1] <= task_list[i].ScheduledEnd[1]
  /\ \A i \in 1..(Len(task_list) - 1) :
       (task_list[i].ScheduledEnd # None /\ task_list[i + 1].ScheduledStart # None) =>
         task_list[i].ScheduledEnd[1] <= task_list[i + 1].ScheduledStart[1]
  /\ al_pc = "done" =>
       \A i \in 1..Len(task_list) :
         task_list[i].ScheduledStart # None /\ task_list[i].ScheduledEnd # None

\* three tasks were given their windows; the second ends when lunch starts
\* and the third starts when lunch ends
C16_Witness ==
  /\ al_pc = "done"
  /\ Len(task_list) = 3
  /\ task_list[2].ScheduledEnd[1] % 1440 = LUNCH_START_HOUR * 60
  /\ task_list[3].ScheduledStart[1] = task_list[2].ScheduledEnd[1] + 60

\* minutes inside [09:00, 17:00) and outside [12:00, 13:00) between s and e,
\* both on a half hour
WorkableBetween(s, e) ==
  30 * Cardinality({k \in (s \div 30)..((e \div 30) - 1) :
                      LET m == (k * 30) % 1440
                      IN /\ WORK_START_HOUR * 60 <= m
                         /\ m < WORK_END_HOUR * 60
                         /\ ~(LUNCH_START_HOUR * 60 <= m /\ m < LUNCH_END_HOUR * 60)})

\* C17: the workable time between a task's ScheduledStart and ScheduledEnd
\* equals its EstimatedHours.
C17_HoursFidelity ==
  \A i \in 1..Len(task_list) :
    (task_list[i].ScheduledStart # None /\ task_list[i].ScheduledEnd # None) =>
      WorkableBetween(task_list[i].ScheduledStart[1], task_list[i].ScheduledEnd[1])
        = task_list[i].EstimatedHours

\* the earliest workable instant at or after t
NextWorkable(t) ==
  LET day == (t \div 1440) * 1440
      m == t % 1440
  IN IF m < WORK_START_HOUR * 60 THEN day + WORK_START_HOUR * 60
     ELSE IF LUNCH_START_HOUR * 60 <= m /\ m < LUNCH_END_HOUR * 60
          THEN day + LUNCH_END_HOUR * 60
     ELSE IF m >= WORK_END_HOUR * 60 THEN day + 1440 + WORK_START_HOUR * 60
     ELSE t

\* C18: the first task's ScheduledStart is the earliest workable instant at
\* or after the time of the call, and so is never earlier than that time.
C18_CursorStartsAtNow ==
  (al_pc # "off" /\ task_list[1].ScheduledStart # None) =>
    /\ task_list[1].ScheduledStart[1] = NextWorkable(al_now)
    /\ task_list[1].ScheduledStart[1] >= al_now

\* C19: a status transition requested from the owner's board on a task of
\* another owner is refused and changes nothing, and no step of this board
\* changes the Status of a task that is not its owner's, in the task map or
\* in the store; so after a reassignment away from the owner the task's
\* Status stays as it is.
C19_OwnershipGuard ==
  [][ /\ \A tid \in TaskIDs, to \in StatusSet :
           (Requested(tid, to) /\ tasks_all[tid].Owner # owner) => Refused
      /\ \A tid \in TaskIDs :
           tasks_all[tid].Owner # owner =>
             tasks_all'[tid].Status = tasks_all[tid].Status
      /\ csv' # csv =>
           \A tid \in TaskIDs :
             stored[tid].Owner # owner => stored'[tid].Status = stored[tid].Status
    ]_vars

\* the owner gave a Pending task away and then tried to start it
C19_Witness ==
  /\ pc = "idle"
  /\ last.res = "Not Allowed"
  /\ last.to = "In Progress"
  /\ tasks_all[last.tid].Owner # owner
  /\ tasks_all[last.tid].Status = "Pending"
  /\ tasks_all[last.tid].CommentLog # <<>>
  /\ tasks_all[last.tid].CommentLog[1].label = <<"Reassign to", tasks_all[last.tid].Owner>>

\* log is the beginning of longer
IsPrefix(log, longer) ==
  /\ Len(log) <= Len(longer)
  /\ \A i \in 1..Len(log) : longer[i] = log[i]

\* C20: CommentLog is append-only in the task map and in the store, a refused
\* operation appends nothing, and every accepted status transition and every
\* reassignment, once its handler has returned, has appended exactly one
\* entry to the task's CommentLog.
C20_LogAppendOnly ==
  [][ /\ \A tid \in TaskIDs :
           IsPrefix(tasks_all[tid].CommentLog, tasks_all'[tid].CommentLog)
      /\ csv' # csv =>
           \A tid \in TaskIDs : IsPrefix(stored[tid].CommentLog, stored'[tid].CommentLog)
      /\ (pc = "idle" /\ pc' = "idle") =>
           \A tid \in TaskIDs : tasks_all'[tid].CommentLog = tasks_all[tid].CommentLog
      /\ (pc = "prompt_comment" /\ pc' = "idle") =>
           /\ last'.res = "ok"
           /\ \A tid \in TaskIDs :
                /\ Len(tasks_all'[tid].CommentLog)
                     = Len(tasks_all[tid].CommentLog) + (IF tid = last.tid THEN 1 ELSE 0)
                /\ stored'[tid].CommentLog = tasks_all'[tid].CommentLog
    ]_vars

\* the fields a reassignment has no business with
ReassignFrame(before, after) ==
  /\ after.Status = before.Status
  /\ after.ActualSeconds = before.ActualSeconds
  /\ after.ActualHours = before.ActualHours
  /\ after.InProgressStart = before.InProgressStart

\* C21: a reassignment changes the task's Owner to a different owner, and
\* when its handler has returned it has appended one audit entry and saved;
\* it leaves the task's Status, ActualSeconds, ActualHours and
\* InProgressStart as they were and every other task unchanged, and the
\* owner dialog never offers the task's current owner.
C21_ReassignmentEffect ==
  [][ /\ (pc = "reassign_dialog" /\ pc' = "prompt_comment") =>
           /\ last'.to # tasks_all[cur.tid].Owner
           /\ ReassignFrame(tasks_all[cur.tid], tasks_all'[cur.tid])
           /\ \A u \in TaskIDs \ {cur.tid} : tasks_all'[u] = tasks_all[u]
      /\ (pc = "prompt_comment" /\ pc' = "idle" /\ cur.label[1] = "Reassign to") =>
           /\ tasks_all'[cur.tid].Owner = cur.label[2]
           /\ Len(tasks_all'[cur.tid].CommentLog) = Len(tasks_all[cur.tid].CommentLog) + 1
           /\ stored' = tasks_all'
           /\ ReassignFrame(tasks_all[cur.tid], tasks_all'[cur.tid])
           /\ \A u \in TaskIDs \ {cur.tid} : tasks_all'[u] = tasks_all[u]
    ]_vars

\* the entry names no task of the map, or a task that is not Completed
FailingEntry(dep_id, all) == dep_id \notin DOMAIN all \/ all[dep_id].Status # "Completed"

\* the failing entries of a dependency list, in the order of the list
FailingEntries(deps, all) == SelectSeq(deps, LAMBDA dep_id : FailingEntry(dep_id, all))

\* C22: for every task map the board reaches and every dependency list,
\* is_blocked is true exactly when some entry is absent from the map or
\* names a task whose Status is not Completed, and get_block_reasons returns
\* one reason per failing entry, in DependsOn order, naming that entry (a
\* missing task as missing, a present one with its owner), and none for a
\* satisfied entry.
C22_BlockReasonsExact ==
  \A deps \in OpenDepLists \cup {<<>>} \cup {tasks_all[tid].DependsOn : tid \in DOMAIN tasks_all} :
    LET task == [DependsOn |-> deps]
        reasons == get_block_reasons(task, tasks_all)
        failing == FailingEntries(deps, tasks_all)
    IN /\ is_blocked(task, tasks_all) <=> (\E k \in 1..Len(deps) : FailingEntry(deps[k], tasks_all))
       /\ Len(reasons) = Len(failing)
       /\ \A i \in 1..Len(failing) :
            /\ reasons[i].dep = failing[i]
            /\ IF failing[i] \in DOMAIN tasks_all
               THEN /\ reasons[i].text = "Waiting on"
                    /\ reasons[i].owner = tasks_all[failing[i]].Owner
               ELSE reasons[i].text = "Depends on missing task"

\* T1 is Completed and T2 is not: a list of T2 and T1 has the one reason of
\* T2, a list of a missing task and T2 has two reasons in that order, and a
\* list of T1 alone has none
C22_Witness ==
  /\ pc = "idle"
  /\ tasks_all["T1"].Status = "Completed"
  /\ tasks_all["T2"].Status \in {"In Progress", "Canceled"}
  /\ Len(get_block_reasons([DependsOn |-> <<"T2", "T1">>], tasks_all)) = 1
  /\ get_block_reasons([DependsOn |-> <<"T2", "T1">>], tasks_all)[1].dep = "T2"
  /\ Len(get_block_reasons([DependsOn |-> <<MissingID, "T2">>], tasks_all)) = 2
  /\ get_block_reasons([DependsOn |-> <<MissingID, "T2">>], tasks_all)[1].dep = MissingID
  /\ ~is_blocked([DependsOn |-> <<"T1">>], tasks_all)

\* the tasks of the progress map that are in the scope asked for
ScopeRows ==
  {i \in 1..Len(pg_tasks) :
     /\ pg_project # None => pg_tasks[i].Project = pg_project[1]
     /\ pg_milestone # None => pg_tasks[i].Milestone = pg_milestone[1]}

CompletedRows == {i \in ScopeRows : pg_tasks[i].Status = "Completed"}

\* C23: for a scope with n tasks, counted over all owners, of which k are
\* Completed, calc_progress_all returns 0 when n = 0 and otherwise an
\* integer between 0 and 100 that is at most one half away from 100*k/n;
\* with n = 4 and k = 1 it returns 25.
C23_ProgressPercent ==
  pg_pc = "returned" =>
    LET n == Cardinality(ScopeRows)
        k == Cardinality(CompletedRows)
        off == n * pg_result - 100 * k
    IN /\ n = 0 => pg_result = 0
       /\ n > 0 => /\ pg_result \in 0..100
                   /\ 2 * off <= n
                   /\ 2 * off >= 0 - n
       /\ (n = 4 /\ k = 1) => pg_result = 25

\* a milestone of one project with four tasks of both owners, one of them
\* Completed, among tasks of other milestones and projects: 25
C23_Witness ==
  /\ pg_pc = "returned"
  /\ pg_project # None
  /\ pg_milestone # None
  /\ Cardinality(ScopeRows) = 4
  /\ Cardinality(CompletedRows) = 1
  /\ Len(pg_tasks) > 4
  /\ {pg_tasks[i].Owner : i \in ScopeRows} = Owners
  /\ pg_result = 25

\* C24: Canceled is terminal on the board.  A request to move a Canceled
\* task to another status is refused; no handler step changes the Status or
\* the ActualSeconds of a task that is Canceled in the task map; a task that
\* is Canceled in the store stays Canceled there with the same ActualSeconds,
\* and in the task map too, through every step, the reloads of poll_csv and
\* the reassignments included.
C24_CanceledTerminal ==
  [][ /\ \A tid \in TaskIDs, to \in StatusSet \ {"Canceled"} :
           (Requested(tid, to) /\ tasks_all[tid].Status = "Canceled") => Refused
      /\ \A tid \in TaskIDs :
           (/\ tasks_all[tid].Status = "Canceled"
            /\ last_csv_mtime' = last_csv_mtime \/ stored[tid].Status = "Canceled")
             => /\ tasks_all'[tid].Status = "Canceled"
                /\ tasks_all'[tid].ActualSeconds = tasks_all[tid].ActualSeconds
      /\ csv' # csv =>
           \A tid \in TaskIDs :
             stored[tid].Status = "Canceled"
               => /\ stored'[tid].Status = "Canceled"
                  /\ stored'[tid].ActualSeconds = stored[tid].ActualSeconds
    ]_vars

\* the owner canceled a task it had worked on, then gave it away, and the
\* drop of the task on In Progress was turned down
C24_Witness ==
  /\ pc = "idle"
  /\ last.res = "Move not allowed"
  /\ last.to = "In Progress"
  /\ tasks_all[last.tid].Status = "Canceled"
  /\ tasks_all[last.tid].ActualSeconds > 0
  /\ tasks_all[last.tid].Owner # owner
  /\ stored[last.tid] = tasks_all[last.tid]

\* C25: a call of update_task_status with a status outside the five
\* statuses raises an error and leaves the task dict exactly as it was, also
\* when the task was In Progress at the time of the call.
C25_InvalidStatusNoEffect ==
  [][ (rec_calls' # rec_calls /\ rec_last'.op = "update" /\ rec_last'.arg \notin StatusSet)
        => /\ rec_last'.raised
           /\ rec_task' = rec_task
    ]_vars

\* C26: two boards share one store and each saves its whole task map.  When
\* this board saves, the store holds exactly its map: for every task X other
\* than the one it moved, the store then holds this board's record of X, also
\* when the store held another record of X saved by the other board, which
\* is overwritten without a message.
C26_WholeMapOverwrites ==
  [][ (pc = "prompt_comment" /\ pc' = "idle") =>
        /\ last'.res = "ok"
        /\ stored' = tasks_all'
        /\ \A X \in TaskIDs \ {cur.tid} : stored'[X] = tasks_all[X]
    ]_vars

\* the other board saved the start of its T2; this board, before its next
\* poll, started its T1 and saved: the store holds T2 as Pending with an
\* empty log, and the start of T2 is lost
C26_Witness ==
  /\ pc = "idle"
  /\ peer_last = Request("T2", "In Progress", "ok")
  /\ last = Request("T1", "In Progress", "ok")
  /\ stored["T1"].Status = "In Progress"
  /\ stored["T2"].Owner # owner
  /\ stored["T2"].Status = "Pending"
  /\ stored["T2"].CommentLog = <<>>
  /\ stored["T2"].InProgressStart = None
  /\ tasks_all = stored

\* C27: a step records a modification token only when the store's token is
\* newer than the recorded one or none is recorded; the step then replaces
\* the task map by exactly the store's contents, records the store's token
\* and leaves the store alone.  While the store's token is not newer, the
\* task map changes only by the writes of the board's own handlers.
C27_PollReloadsOnNewerToken ==
  [][ /\ last_csv_mtime' # last_csv_mtime =>
           /\ last_csv_mtime = None \/ csv_mtime > last_csv_mtime[1]
           /\ tasks_all' = stored
           /\ last_csv_mtime' = <<csv_mtime>>
           /\ csv' = csv /\ csv_mtime' = csv_mtime
      /\ (tasks_all' # tasks_all /\ pc' = pc) =>
           /\ last_csv_mtime = None \/ csv_mtime > last_csv_mtime[1]
           /\ last_csv_mtime' # last_csv_mtime
    ]_vars

\* the board has done nothing; the other board paused its T2, and the poll
\* brought the pause into the task map
C27_Witness ==
  /\ pc = "idle"
  /\ last = NoRequest
  /\ peer_last = Request("T2", "Paused", "ok")
  /\ last_csv_mtime = <<csv_mtime>>
  /\ csv_mtime > 0
  /\ tasks_all["T2"].Status = "Paused"
  /\ tasks_all = stored

\* no task depends on itself, directly or through other tasks
Acyclic == \A T \in TopoIDs : ~OnCycle(T)

\* C28: topological_sort returns an order exactly when no DependsOn names a
\* missing task and the graph has no cycle: it returns only then, it fails
\* only otherwise (as dangling only with a missing ID, as a cycle only with
\* a cycle), and on such a graph the loop never runs dry before every task
\* is emitted.  The returned order contains every TaskID exactly once.
C28_ReturnsIffResolvable ==
  tp_pc # "off" =>
    /\ tp_pc = "returned" =>
         /\ ~HasDangling /\ Acyclic
         /\ Len(ordered_ids) = Cardinality(TopoIDs)
         /\ \A T \in TopoIDs :
              Cardinality({j \in 1..Len(ordered_ids) : ordered_ids[j] = T}) = 1
    /\ tp_pc = "dangling" => HasDangling
    /\ tp_pc = "cycle" => ~Acyclic
    /\ (~HasDangling /\ Acyclic) =>
         /\ tp_pc \in {"start", "loop", "returned"}
         /\ (tp_pc = "loop" /\ queue = <<>>) => Len(ordered_ids) = Cardinality(TopoIDs)

\* a chain: A depends on B and B on C, and the order C, B, A is returned
C28_Witness ==
  /\ tp_pc = "returned"
  /\ tp_tasks["A"].DependsOn = <<"B">>
  /\ tp_tasks["B"].DependsOn = <<"C">>
  /\ tp_tasks["C"].DependsOn = <<>>
  /\ ordered_ids = <<"C", "B", "A">>

\* C29: from a store in which the tasks of the board's owner are Pending, in
\* every state the board reaches every task whose Status is In Progress,
\* Paused or Completed has all its dependencies Completed, in the task map
\* and in the store.
C29_StartedOnlyAfterDependencies ==
  /\ \A tid \in TaskIDs :
       tasks_all[tid].Status \in {"In Progress", "Paused", "Completed"}
         => ~HasOpenDependency(tid, tasks_all)
  /\ \A tid \in TaskIDs :
       stored[tid].Status \in {"In Progress", "Paused", "Completed"}
         => ~HasOpenDependency(tid, stored)

\* T2 depends on T1; T1 was completed, then T2 was started and the start saved
C29_Witness ==
  /\ pc = "idle"
  /\ tasks_all["T2"].DependsOn = <<"T1">>
  /\ tasks_all["T1"].Status = "Completed"
  /\ tasks_all["T2"].Status = "In Progress"
  /\ last = Request("T2", "In Progress", "ok")
  /\ stored = tasks_all

\* tid names a dependency whose Status is Canceled
HasCanceledDependency(tid, all) ==
  \E k \in 1..Len(all[tid].DependsOn) :
    /\ all[tid].DependsOn[k] \in DOMAIN all
    /\ all[all[tid].DependsOn[k]].Status = "Canceled"

\* C30: a task with a Canceled dependency is blocked, and a request to move
\* it to In Progress is refused.  No handler step of the board takes the
\* dependency out of Canceled or the task into In Progress; with the
\* dependency Canceled in the store, this holds through every step, in the
\* task map and in the store: the task is never In Progress again.
C30_CanceledDependencyBlocksForever ==
  /\ [](\A tid \in TaskIDs :
          HasCanceledDependency(tid, tasks_all)
            => /\ is_blocked(tasks_all[tid], tasks_all)
               /\ tasks_all[tid].Status # "In Progress")
  /\ [][ /\ \A tid \in TaskIDs :
              (Requested(tid, "In Progress") /\ HasCanceledDependency(tid, tasks_all))
                => Refused
         /\ \A tid \in TaskIDs :
              (/\ HasCanceledDependency(tid, tasks_all)
               /\ last_csv_mtime' = last_csv_mtime \/ HasCanceledDependency(tid, stored))
                => HasCanceledDependency(tid, tasks_all')
         /\ csv' # csv =>
              \A tid \in TaskIDs :
                HasCanceledDependency(tid, stored)
                  => /\ HasCanceledDependency(tid, stored')
                     /\ stored'[tid].Status # "In Progress"
       ]_vars

\* T2 depends on T1; T1 was canceled, and the start of T2 was turned down
C30_Witness ==
  /\ pc = "idle"
  /\ last = Request("T2", "In Progress", "Blocked")
  /\ tasks_all["T2"].DependsOn = <<"T1">>
  /\ tasks_all["T1"].Status = "Canceled"
  /\ stored["T1"].Status = "Canceled"
  /\ tasks_all["T2"].Status = "Pending"

\* the place in the ready frontier q of the task that entered it first among
\* the tasks of the least priority rank
FirstOfLeastRank(q) ==
  CHOOSE i \in 1..Len(q) :
    /\ \A j \in 1..Len(q) : RankOf(tp_tasks[q[i]].Priority) <= RankOf(tp_tasks[q[j]].Priority)
    /\ \A j \in 1..(i - 1) : RankOf(tp_tasks[q[i]].Priority) < RankOf(tp_tasks[q[j]].Priority)

\* the tasks whose last open dependency entries all name T, in the insertion
\* order of the task map
ReadiedBy(T) ==
  SelectSeq(TopoOrder,
            LAMBDA n : /\ in_degree[n] > 0
                       /\ in_degree[n] = Cardinality({k \in 1..Len(tp_tasks[n].DependsOn) :
                                                        tp_tasks[n].DependsOn[k] = T}))

\* C31: topological_sort is deterministic.  The ready frontier starts as the
\* tasks without dependencies in the insertion order of the task map; every
\* step emits, among the ready tasks of the least priority rank, the one that
\* entered the frontier first, and puts the tasks it makes ready at the end
\* of the frontier in the order their in-degree reached zero.  Each step's
\* outcome is thus fixed by the task map and its insertion order, and no
\* task is in the frontier twice.
C31_DeterministicTieBreak ==
  /\ [](tp_pc = "loop" =>
          \A i, j \in 1..Len(queue) : queue[i] = queue[j] => i = j)
  /\ [][ /\ (tp_pc = "start" /\ tp_pc' = "loop") =>
              queue' = SelectSeq(TopoOrder, LAMBDA T : tp_tasks[T].DependsOn = <<>>)
         /\ ordered_ids' # ordered_ids =>
              LET i == FirstOfLeastRank(queue)
              IN /\ ordered_ids' = Append(ordered_ids, queue[i])
                 /\ queue' = SubSeq(queue, 1, i - 1) \o SubSeq(queue, i + 1, Len(queue))
                               \o ReadiedBy(queue[i])
         /\ tp_tasks' = tp_tasks
       ]_vars

\* A comes first in the map and depends on C; A and B are Low, C is High.  B
\* entered the frontier before A did, and the order is C, B, A
C31_Witness ==
  /\ tp_pc = "returned"
  /\ tp_tasks["A"] = [DependsOn |-> <<"C">>, Priority |-> "Low"]
  /\ tp_tasks["B"] = [DependsOn |-> <<>>, Priority |-> "Low"]
  /\ tp_tasks["C"] = [DependsOn |-> <<>>, Priority |-> "High"]
  /\ ordered_ids = <<"C", "B", "A">>

\* C32: allocate_schedule terminates on every task list with positive
\* EstimatedHours, whole or fractional.  Every iteration of the while loop
\* either moves the cursor, and then into a workable hour, or consumes a
\* strictly positive part of the remaining hours, never more than remain;
\* the call returns, and when it has, every task has a ScheduledStart and a
\* ScheduledEnd.
C32_AllocationTerminates ==
  /\ <>(al_pc = "done")
  /\ [](al_pc = "done" =>
          \A i \in 1..Len(task_list) :
            task_list[i].ScheduledStart # None /\ task_list[i].ScheduledEnd # None)
  /\ [][ (al_pc = "loop" /\ al_i' = al_i /\ al_pc' = "loop") =>
           \/ /\ hours_remaining' = hours_remaining
              /\ current_time' # current_time
              /\ Branch(current_time') = "work"
           \/ /\ hours_remaining' < hours_remaining
              /\ hours_remaining' >= 0
              /\ current_time' > current_time
       ]_vars

\* a list with a task of two and a half hours was scheduled into the next
\* day, and every task has its window
C32_Witness ==
  /\ al_pc = "done"
  /\ \E i \in 1..Len(task_list) : task_list[i].EstimatedHours = 150
  /\ current_time > 1440
  /\ \A i \in 1..Len(task_list) :
       task_list[i].ScheduledStart # None /\ task_list[i].ScheduledEnd # None

====
